---- MODULE Spec2Model ----
(***************************************************************************)
(* Model of problem1/src/main.cpp: the retrying student generator, the     *)
(* build loop of main, and the step pipeline (execute_processing_step      *)
(* applied to processing_steps) with everything the steps print.           *)
(*                                                                         *)
(* Scores are IEEE-754 doubles in the program.  A double is modelled as    *)
(* the record [w, u] standing for w + u * 2^-52 with w an integer and u a  *)
(* small natural number: whole numbers, and numbers a few units in the     *)
(* last place above one.  On these values the model's addition, division   *)
(* and comparisons are the exact round-to-nearest-even results of the      *)
(* double operations (the doubles in [2^k, 2^(k+1)) are the multiples of   *)
(* 2^(k-52)).  "{:.2f}" is modelled by Fmt2, the value in hundredths       *)
(* rounded to nearest.                                                     *)
(*                                                                         *)
(* Standard output is kept in two variables, each a sequence of lines:     *)
(* progress holds what the build loop has printed for the current target   *)
(* id (from "Generating data for ID" on, until the next id or the end of   *)
(* the build), out holds everything else in the order printed.  A failure  *)
(* line carries the attempt number; the message it prints is result.error. *)
(***************************************************************************)
EXTENDS Integers, Sequences, FiniteSets, TLC

(* ------------------------------ bounds --------------------------------- *)
\* largest NUM_STUDENTS explored (the program compiles with 30)
MaxStudents == 3
\* attempts per id that are counted and reported; further failed attempts
\* for the same id are still taken but leave attempt_count and progress as
\* they are
MaxAttempts == 3

(* ------------------------- program constants --------------------------- *)
MAX_SCORE == 100
MIN_SCORE == 0
PASS_THRESHOLD == 60
EXCELLENT_THRESHOLD == 85

\* the double w + u * 2^-52
Dbl(w, u) == [w |-> w, u |-> u]
\* the double of a whole number
Whole(w) == Dbl(w, 0)

\* values score_dist(engine) may return (normal distribution: unbounded):
\* whole numbers, and 96 + 2^-45
ScoreDraws == {Whole(-5), Whole(0), Whole(50), Whole(60), Whole(70), Whole(80),
               Whole(90), Whole(100), Whole(105), Dbl(96, 128)}

VARIABLES
    NUM_STUDENTS,       \* constexpr size_t NUM_STUDENTS
    students,           \* std::vector<Student> students
    current_id_index,   \* size_t current_id_index
    target_id,          \* const int target_id (current outer iteration)
    attempt_count,      \* size_t attempt_count
    generated_score,    \* generate_single_student: generated_score of the last call
    injected_error,     \* generate_single_student: injected_error of the last call
    result,             \* SingleStudentResult result (none until the first call for an id)
    processing_steps,   \* const std::vector<ProcessingStep> processing_steps
    stepIdx,            \* position of the range-for over processing_steps
    progress,           \* standard output: the lines printed for the current target id
    out,                \* standard output: all other lines, in the order printed
    trace,              \* history: one record per execute_processing_step call
    pc                  \* control position in main

vars == <<NUM_STUDENTS, students, current_id_index, target_id, attempt_count,
          generated_score, injected_error, result, processing_steps, stepIdx,
          progress, out, trace, pc>>

(* ------------------------------ helpers -------------------------------- *)
\* one printed line: kind, fixed text, and up to two formatted numbers
Line(k, s, x, y) == [k |-> k, s |-> s, x |-> x, y |-> y]

\* "{:.2f}" of a double: the value in hundredths (u * 2^-52 is far below
\* half a hundredth)
Fmt2(v) == v.w * 100

\* double < double, and double < whole constant, whole constant < double
DLess(a, b) == a.w < b.w \/ (a.w = b.w /\ a.u < b.u)
Below(v, c) == v.w < c
Above(v, c) == v.w > c \/ (v.w = c /\ v.u > 0)

\* the spacing, in units of 2^-52, of the doubles around the whole part w >= 0
RECURSIVE Grid(_)
Grid(w) == IF w < 2 THEN 1 ELSE 2 * Grid(w \div 2)

\* num / den rounded to the nearest multiple of g, ties to the even multiple
RoundToGrid(num, den, g) ==
    LET m == num \div (den * g)
        rem == num - m * den * g
    IN  IF 2 * rem < den * g THEN m * g
        ELSE IF 2 * rem > den * g THEN (m + 1) * g
        ELSE IF m % 2 = 0 THEN m * g ELSE (m + 1) * g

\* double + double (both >= 0), rounded to nearest even; x and y are the
\* values of the operands
DAdd(a, b) ==
    CHOOSE sum \in { Dbl(x.w + y.w, RoundToGrid(x.u + y.u, 1, Grid(x.w + y.w)))
                     : x \in {a}, y \in {b} } : TRUE

\* double / size: the quotient, kept as sum.w / size for its whole part; when
\* that is a whole number the low part u is the rounded quotient of sum.u,
\* otherwise the low part cannot decide a comparison with a score
DDiv(sum, size) ==
    [num |-> sum.w, den |-> size,
     u |-> IF sum.w % size = 0
           THEN RoundToGrid(sum.u, size, Grid(sum.w \div size))
           ELSE 0]

\* double >= quotient
GeqQuotient(v, q) == v.w * q.den > q.num \/ (v.w * q.den = q.num /\ v.u >= q.u)

\* "{:.1f}" of an integer-valued constant: the value in tenths
Fmt1(v) == v * 10

\* "{:.2f}" of the quotient sum / size: hundredths, rounded to nearest
\* (no ties occur for size < 8)
Fmt2Ratio(sum, size) == (200 * sum + size) \div (2 * size)

Student(id, score) == [id |-> id, score |-> score]

NoStudent == Student(0, Whole(0))
NoError == [kind |-> "", raw |-> 0, lo |-> 0, hi |-> 0]

\* std::expected<Student, std::string>: a value or an error message
Value(s) == [st |-> "value", value |-> s, error |-> NoError]
Unexpected(e) == [st |-> "error", value |-> NoStudent, error |-> e]
NoResult == [st |-> "none", value |-> NoStudent, error |-> NoError]

\* the two messages of generate_single_student
SimulatedError == [kind |-> "Simulated random error", raw |-> 0, lo |-> 0, hi |-> 0]
OutOfRangeError(score) ==
    [kind |-> "Raw score out of range", raw |-> Fmt2(score),
     lo |-> Fmt1(MIN_SCORE), hi |-> Fmt1(MAX_SCORE)]

(* ----------------------- generate_single_student ----------------------- *)
\* variant: the upper bound of the range check is missing
generate_no_upper_check(student_id, score, fault) ==
    IF fault
    THEN Unexpected(SimulatedError)
    ELSE IF Below(score, MIN_SCORE)
         THEN Unexpected(OutOfRangeError(score))
         ELSE Value(Student(student_id, score))

\* variant: the two bounds are exchanged in the range check
generate_bounds_swapped(student_id, score, fault) ==
    IF fault
    THEN Unexpected(SimulatedError)
    ELSE IF Below(score, MAX_SCORE) \/ Above(score, MIN_SCORE)
         THEN Unexpected(OutOfRangeError(score))
         ELSE Value(Student(student_id, score))

\* variant: the range check rejects the bounds themselves
generate_open_range(student_id, score, fault) ==
    IF fault
    THEN Unexpected(SimulatedError)
    ELSE IF ~Above(score, MIN_SCORE) \/ ~Below(score, MAX_SCORE)
         THEN Unexpected(OutOfRangeError(score))
         ELSE Value(Student(student_id, score))

\* score and fault are the two values drawn from the engine
generate_single_student(student_id, score, fault) ==
    IF fault
    THEN Unexpected(SimulatedError)
    ELSE IF Below(score, MIN_SCORE) \/ Above(score, MAX_SCORE)
         THEN Unexpected(OutOfRangeError(score))
         ELSE Value(Student(student_id, score))

(* -------------------------- print_student_table ------------------------ *)
\* variant: the summary is printed whatever print_summary_count says
print_student_table_always_counts(list_title, student_range, print_summary_count) ==
    LET rows == [i \in 1..Len(student_range) |->
                    Line("row", "", student_range[i].id, Fmt2(student_range[i].score))]
        count == Len(rows)
    IN  <<Line("list_title", list_title.s, list_title.x, 0),
          Line("columns", "Student ID | Score", 0, 0),
          Line("rule", "", 0, 0)>>
        \o rows
        \o <<Line("table_end", "", 0, 0)>>
        \o <<Line("total", "Total matching students", count, 0)>>
        \o (IF count = 0
            THEN <<Line("none", "(No students met the criteria for this list)", 0, 0)>>
            ELSE <<>>)
        \o <<Line("blank", "", 0, 0)>>

print_student_table(list_title, student_range, print_summary_count) ==
    LET rows == [i \in 1..Len(student_range) |->
                    Line("row", "", student_range[i].id, Fmt2(student_range[i].score))]
        count == Len(rows)
    IN  <<Line("list_title", list_title.s, list_title.x, 0),
          Line("columns", "Student ID | Score", 0, 0),
          Line("rule", "", 0, 0)>>
        \o rows
        \o <<Line("table_end", "", 0, 0)>>
        \o (IF print_summary_count
            THEN <<Line("total", "Total matching students", count, 0)>>
                 \o (IF count = 0
                     THEN <<Line("none", "(No students met the criteria for this list)", 0, 0)>>
                     ELSE <<>>)
            ELSE <<>>)
        \o <<Line("blank", "", 0, 0)>>

(* ------------------------------ the steps ------------------------------ *)
\* the predicates captured by the two filter steps
Filter(filter, s) ==
    CASE filter = "excellent" -> Above(s.score, EXCELLENT_THRESHOLD)
      [] filter = "failing"   -> Below(s.score, PASS_THRESHOLD)

\* view | std::views::filter(filter)
FilterView(view, filter) == SelectSeq(view, LAMBDA s : Filter(filter, s))

\* std::accumulate(view.begin(), view.end(), 0.0, current_sum + s.score)
RECURSIVE Accumulate(_, _, _)
Accumulate(view, i, current_sum) ==
    IF i > Len(view) THEN current_sum
    ELSE Accumulate(view, i + 1, DAdd(current_sum, view[i].score))

\* s.score >= average_score
AboveAverage(s, average_score) == GeqQuotient(s.score, average_score)

\* the analysis lambda of step 3
AnalysisLogic(data) ==
    IF data = <<>>
    THEN <<Line("stats", "--- Statistics ---", 0, 0),
           Line("analyzed", "Number of students analyzed", 0, 0),
           Line("average", "Calculated Average Score: N/A", 0, 0),
           Line("stats_end", "", 0, 0)>>
         \o print_student_table([s |-> "List: Scoring >= Average (N/A)", x |-> 0], <<>>, TRUE)
    ELSE LET view == data
             size == Len(view)
             Report(average_score) ==
                 <<Line("stats", "--- Statistics ---", 0, 0),
                   Line("analyzed", "Number of students analyzed", size, 0),
                   Line("average", "Calculated Average Score",
                        Fmt2Ratio(average_score.num, average_score.den), 0),
                   Line("stats_end", "", 0, 0)>>
                 \o print_student_table(
                        [s |-> "List: Scoring >= Average",
                         x |-> Fmt2Ratio(average_score.num, average_score.den)],
                        SelectSeq(view, LAMBDA s : AboveAverage(s, average_score)),
                        TRUE)
         IN  CHOOSE report \in
                 { Report(average_score) :
                       average_score \in
                           { DDiv(sum_of_scores, size) :
                                 sum_of_scores \in {Accumulate(view, 1, Whole(0))} } } : TRUE

\* std::greater on the projection &Student::score holds along the sequence
SortedDescending(data) ==
    \A i \in 1..Len(data) : \A j \in 1..Len(data) :
        i < j => ~DLess(data[i].score, data[j].score)

\* variant: the comparator is std::less, the order comes out ascending
RangesSortAscending(data) ==
    LET n == Len(data)
    IN  { a \in { [i \in 1..n |-> data[p[i]]] : p \in Permutations(1..n) } :
            \A i \in 1..n : \A j \in 1..n : i < j => ~DLess(a[j].score, a[i].score) }

\* variant: the projection is &Student::id, the order is by descending id
RangesSortById(data) ==
    LET n == Len(data)
    IN  { a \in { [i \in 1..n |-> data[p[i]]] : p \in Permutations(1..n) } :
            \A i \in 1..n : \A j \in 1..n : i < j => a[i].id > a[j].id }

\* variant: after sorting, of the entities with one score only one is kept
RangesSortUnique(data) ==
    LET n == Len(data)
        sorted == { a \in { [i \in 1..n |-> data[p[i]]] : p \in Permutations(1..n) } :
                      SortedDescending(a) }
    IN  { SelectSeq(a, LAMBDA s :
              \A i \in 1..n : a[i].score = s.score => a[i].id >= s.id) : a \in sorted }

\* std::ranges::sort(data, std::greater<>{}, &Student::score): the sort is
\* not stable, so every descending arrangement of the elements is possible
RangesSort(data) ==
    LET n == Len(data)
    IN  { a \in { [i \in 1..n |-> data[p[i]]] : p \in Permutations(1..n) } :
            SortedDescending(a) }

\* the action lambda of step 4
SortAndPrint(data) ==
    { [data |-> sorted,
       out  |-> <<Line("sorting", "--- Sorting Data by Score (Descending)... ---", 0, 0),
                  Line("sorted", "--- Data Sorted Successfully ---", 0, 0),
                  Line("blank", "", 0, 0)>>
                \o print_student_table(
                       [s |-> "List: All Students (Sorted by Score Descending)", x |-> 0],
                       sorted, FALSE)]
      : sorted \in RangesSort(data) }

\* make_filter_print_step
make_filter_print_step(main_title, list_title, filter, print_summary) ==
    [main_title |-> main_title, shape |-> "filter_print",
     list_title |-> list_title, filter |-> filter, print_summary |-> print_summary]

\* make_custom_logic_step
make_custom_logic_step(main_title) ==
    [main_title |-> main_title, shape |-> "custom_logic",
     list_title |-> [s |-> "", x |-> 0], filter |-> "", print_summary |-> TRUE]

\* make_action_step
make_action_step(main_title) ==
    [main_title |-> main_title, shape |-> "action",
     list_title |-> [s |-> "", x |-> 0], filter |-> "", print_summary |-> FALSE]

Step1 == make_filter_print_step("(1) Filter: Excellent Students",
            [s |-> "List: Score > ", x |-> Fmt1(EXCELLENT_THRESHOLD)], "excellent", TRUE)
Step2 == make_filter_print_step("(2) Filter: Failing Students",
            [s |-> "List: Score < ", x |-> Fmt1(PASS_THRESHOLD)], "failing", TRUE)
Step3 == make_custom_logic_step("(3) Calculate & Filter: Above Average")
Step4 == make_action_step("(4) Action & View: Sort All and Print")

\* a step with the title execute_processing_step exempts from its emptiness
\* guard; its operation is the analysis lambda, which handles empty data
StepStatic == make_custom_logic_step("(Hypothetical Static Step)")

\* the list main builds
MainSteps == <<Step1, Step2, Step3, Step4>>

\* step lists handed to the executor: main's, one of the same steps that
\* puts the sort first and runs a filter twice in a row, and one that starts
\* with the exempted step
StepLists == {MainSteps, <<Step4, Step2, Step2, Step3>>, <<StepStatic, Step4, Step1>>}

\* variant: a filter step filters the vector itself instead of a view of it
core_logic_filter_in_place(step, data) ==
    CASE step.shape = "filter_print" ->
            { [data |-> FilterView(data, step.filter),
               out  |-> print_student_table(step.list_title,
                                            FilterView(data, step.filter),
                                            step.print_summary)] }
      [] step.shape = "custom_logic" ->
            { [data |-> data, out |-> AnalysisLogic(data)] }
      [] step.shape = "action" -> SortAndPrint(data)

\* variant: a filter step removes from the vector the entities it printed
core_logic_filter_drains(step, data) ==
    CASE step.shape = "filter_print" ->
            { [data |-> SelectSeq(data, LAMBDA s : ~Filter(step.filter, s)),
               out  |-> print_student_table(step.list_title,
                                            FilterView(data, step.filter),
                                            step.print_summary)] }
      [] step.shape = "custom_logic" ->
            { [data |-> data, out |-> AnalysisLogic(data)] }
      [] step.shape = "action" -> SortAndPrint(data)

\* variant: the analysis sorts the vector before it computes the average
core_logic_analysis_sorts(step, data) ==
    CASE step.shape = "filter_print" ->
            { [data |-> data,
               out  |-> print_student_table(step.list_title,
                                            FilterView(data, step.filter),
                                            step.print_summary)] }
      [] step.shape = "custom_logic" ->
            { [data |-> sorted, out |-> AnalysisLogic(sorted)] : sorted \in RangesSort(data) }
      [] step.shape = "action" -> SortAndPrint(data)

\* step.core_logic(data): the possible (data, output) outcomes
core_logic(step, data) ==
    CASE step.shape = "filter_print" ->
            { [data |-> data,
               out  |-> print_student_table(step.list_title,
                                            FilterView(data, step.filter),
                                            step.print_summary)] }
      [] step.shape = "custom_logic" ->
            { [data |-> data, out |-> AnalysisLogic(data)] }
      [] step.shape = "action" -> SortAndPrint(data)

(* ----------------------- execute_processing_step ----------------------- *)
\* variant: data is taken by value, the caller's vector is left as it was
execute_processing_step_by_value(step, data) ==
    LET header == <<Line("main_title", step.main_title, 0, 0)>>
    IN  IF data = <<>> /\ step.main_title # "(Hypothetical Static Step)"
        THEN { [data |-> data,
                out  |-> header \o
                         <<Line("no_data", "--- No student data available to process for this step ---", 0, 0),
                           Line("blank", "", 0, 0)>>,
                invoked |-> FALSE] }
        ELSE { [data |-> data, out |-> header \o o.out, invoked |-> TRUE]
               : o \in core_logic(step, data) }

\* variant: the guard exempts no title
execute_processing_step_no_exemption(step, data) ==
    LET header == <<Line("main_title", step.main_title, 0, 0)>>
    IN  IF data = <<>>
        THEN { [data |-> data,
                out  |-> header \o
                         <<Line("no_data", "--- No student data available to process for this step ---", 0, 0),
                           Line("blank", "", 0, 0)>>,
                invoked |-> FALSE] }
        ELSE { [data |-> o.data, out |-> header \o o.out, invoked |-> TRUE]
               : o \in core_logic(step, data) }

\* variant: the emptiness guard is missing
execute_processing_step_unguarded(step, data) ==
    LET header == <<Line("main_title", step.main_title, 0, 0)>>
    IN  { [data |-> o.data, out |-> header \o o.out, invoked |-> TRUE]
          : o \in core_logic(step, data) }

execute_processing_step(step, data) ==
    LET header == <<Line("main_title", step.main_title, 0, 0)>>
    IN  IF data = <<>> /\ step.main_title # "(Hypothetical Static Step)"
        THEN { [data |-> data,
                out  |-> header \o
                         <<Line("no_data", "--- No student data available to process for this step ---", 0, 0),
                           Line("blank", "", 0, 0)>>,
                invoked |-> FALSE] }
        ELSE { [data |-> o.data, out |-> header \o o.out, invoked |-> TRUE]
               : o \in core_logic(step, data) }

(* ------------------------------- main ---------------------------------- *)
Init ==
    /\ NUM_STUDENTS \in 0..MaxStudents
    /\ students = <<>>
    /\ current_id_index = 0
    /\ target_id = 0
    /\ attempt_count = 0
    /\ generated_score = Whole(0)
    /\ injected_error = FALSE
    /\ result = NoResult
    /\ processing_steps = <<>>
    /\ stepIdx = 0
    /\ progress = <<>>
    /\ out = <<Line("banner", "Generating Data", NUM_STUDENTS, 0)>>
    /\ trace = <<>>
    /\ pc = "while"

\* variant: attempt_count is declared before the outer loop and never reset
NextStudentKeepsCount ==
    /\ pc = "while"
    /\ Len(students) < NUM_STUDENTS
    /\ target_id' = current_id_index + 1
    /\ attempt_count' = attempt_count
    /\ progress' = <<Line("gen_id", "Generating data for ID", current_id_index + 1, 0)>>
    /\ result' = NoResult
    /\ pc' = "retry"
    /\ UNCHANGED <<NUM_STUDENTS, students, current_id_index, generated_score,
                   injected_error, processing_steps, stepIdx, out, trace>>

\* while (students.size() < NUM_STUDENTS) is true: start the next target id
NextStudent ==
    /\ pc = "while"
    /\ Len(students) < NUM_STUDENTS
    /\ target_id' = current_id_index + 1
    /\ attempt_count' = 0
    /\ progress' = <<Line("gen_id", "Generating data for ID", current_id_index + 1, 0)>>
    /\ result' = NoResult
    /\ pc' = "retry"
    /\ UNCHANGED <<NUM_STUDENTS, students, current_id_index, generated_score,
                   injected_error, processing_steps, stepIdx, out, trace>>

\* one iteration of while (true) in which generate_single_student succeeds
AttemptSucceeds ==
    /\ pc = "retry"
    /\ \E score \in ScoreDraws, fault \in BOOLEAN :
        LET r == generate_single_student(target_id, score, fault)
            attempt == attempt_count + 1
        IN  /\ r.st = "value"
            /\ generated_score' = score
            /\ injected_error' = fault
            /\ result' = r
            /\ attempt_count' = attempt
            /\ students' = Append(students, r.value)
            /\ progress' = Append(progress,
                                  Line("gen_ok", "[OK] Score", Fmt2(r.value.score), attempt))
            /\ current_id_index' = current_id_index + 1
            /\ pc' = "while"
    /\ UNCHANGED <<NUM_STUDENTS, target_id, processing_steps, stepIdx, out, trace>>

\* variant: a failed attempt gives up on the id and moves to the next one
AttemptFailsSkipsId ==
    /\ pc = "retry"
    /\ \E score \in ScoreDraws, fault \in BOOLEAN :
        LET r == generate_single_student(target_id, score, fault)
        IN  /\ r.st = "error"
            /\ generated_score' = score
            /\ injected_error' = fault
            /\ result' = r
            /\ attempt_count' = attempt_count + 1
            /\ progress' = Append(progress,
                                  Line("gen_fail", "Failed. Retrying...", attempt_count + 1, 0))
            /\ current_id_index' = current_id_index + 1
            /\ pc' = "while"
    /\ UNCHANGED <<NUM_STUDENTS, students, target_id,
                   processing_steps, stepIdx, out, trace>>

\* one iteration of while (true) in which generate_single_student fails
AttemptFails ==
    /\ pc = "retry"
    /\ \E score \in ScoreDraws, fault \in BOOLEAN :
        LET r == generate_single_student(target_id, score, fault)
        IN  /\ r.st = "error"
            /\ generated_score' = score
            /\ injected_error' = fault
            /\ result' = r
            /\ IF attempt_count + 1 < MaxAttempts
               THEN /\ attempt_count' = attempt_count + 1
                    /\ progress' = Append(progress,
                                          Line("gen_fail", "Failed. Retrying...",
                                               attempt_count + 1, 0))
               ELSE UNCHANGED <<attempt_count, progress>>
            /\ pc' = "retry"
    /\ UNCHANGED <<NUM_STUDENTS, students, current_id_index, target_id,
                   processing_steps, stepIdx, out, trace>>

\* the while condition is false: print the completion lines and build
\* processing_steps; the locals of the loop body are gone
GenerationComplete ==
    /\ pc = "while"
    /\ ~(Len(students) < NUM_STUDENTS)
    /\ out' = out \o <<Line("gen_complete", "Generation Complete", Len(students), 0),
                       Line("processing", "Processing Student Data", 0, 0)>>
    /\ progress' = <<>>
    /\ target_id' = 0
    /\ attempt_count' = 0
    /\ generated_score' = Whole(0)
    /\ injected_error' = FALSE
    /\ result' = NoResult
    /\ processing_steps' \in StepLists
    /\ stepIdx' = 1
    /\ pc' = "steps"
    /\ UNCHANGED <<NUM_STUDENTS, students, current_id_index, trace>>

\* variant: the iteration advances past the step after the one it ran
ExecuteStepSkipsNext ==
    /\ pc = "steps"
    /\ stepIdx <= Len(processing_steps)
    /\ \E o \in execute_processing_step(processing_steps[stepIdx], students) :
        /\ students' = o.data
        /\ out' = out \o o.out
        /\ trace' = Append(trace, [step |-> processing_steps[stepIdx],
                                   before |-> students, after |-> o.data,
                                   emitted |-> o.out, invoked |-> o.invoked])
    /\ stepIdx' = stepIdx + 2
    /\ UNCHANGED <<NUM_STUDENTS, current_id_index, target_id, attempt_count,
                   generated_score, injected_error, result, processing_steps,
                   progress, pc>>

\* one iteration of for (const auto& step : processing_steps)
ExecuteStep ==
    /\ pc = "steps"
    /\ stepIdx <= Len(processing_steps)
    /\ \E o \in execute_processing_step(processing_steps[stepIdx], students) :
        /\ students' = o.data
        /\ out' = out \o o.out
        /\ trace' = Append(trace, [step |-> processing_steps[stepIdx],
                                   before |-> students, after |-> o.data,
                                   emitted |-> o.out, invoked |-> o.invoked])
    /\ stepIdx' = stepIdx + 1
    /\ UNCHANGED <<NUM_STUDENTS, current_id_index, target_id, attempt_count,
                   generated_score, injected_error, result, processing_steps,
                   progress, pc>>

\* the range-for is exhausted: print the last line and return 0
ProcessingComplete ==
    /\ pc = "steps"
    /\ stepIdx > Len(processing_steps)
    /\ out' = Append(out, Line("complete", "Processing Complete", 0, 0))
    /\ pc' = "done"
    /\ UNCHANGED <<NUM_STUDENTS, students, current_id_index, target_id, attempt_count,
                   generated_score, injected_error, result, processing_steps,
                   stepIdx, progress, trace>>

Next ==
    \/ NextStudent
    \/ AttemptSucceeds
    \/ AttemptFails
    \/ GenerationComplete
    \/ ExecuteStep
    \/ ProcessingComplete

Spec == Init /\ [][Next]_vars

\* the program keeps running; a generator attempt that can succeed is not
\* failed forever
FairSpec == Spec /\ WF_vars(Next) /\ WF_vars(AttemptSucceeds)

TypeOK ==
    /\ NUM_STUDENTS \in 0..MaxStudents
    /\ Len(students) <= NUM_STUDENTS
    /\ attempt_count <= MaxAttempts
    /\ pc \in {"while", "retry", "steps", "done"}

(* ============================== properties ============================= *)
\* the rows of the tables among some printed lines
Rows(lines) == SelectSeq(lines, LAMBDA l : l.k = "row")
\* the rows a table of the sequence d has
RowsOf(d) == [i \in 1..Len(d) |-> Line("row", "", d[i].id, d[i].score.w * 100)]
HasLine(lines, kind) == \E i \in 1..Len(lines) : lines[i].k = kind
LineOf(lines, kind) == lines[CHOOSE i \in 1..Len(lines) : lines[i].k = kind]
Ran(k, shape) == trace[k].step.shape = shape /\ trace[k].invoked

\* the build loop has just finished
BuildFinished ==
    \/ pc = "while" /\ ~(Len(students) < NUM_STUDENTS)
    \/ pc = "steps" /\ trace = <<>>

\* C1: when the build loop finishes the collection holds exactly
\* NUM_STUDENTS entities, the entity at position i has id i, and every
\* score lies in [0, 100], whatever attempts failed on the way.
C1_BuildResult ==
    BuildFinished =>
        /\ Len(students) = NUM_STUDENTS
        /\ \A i \in 1..Len(students) :
              /\ students[i].id = i
              /\ students[i].score.w >= 0
              /\ students[i].score.w <= 100
              /\ students[i].score.w = 100 => students[i].score.u = 0

C1_Witness ==
    /\ pc = "while" /\ ~(Len(students) < NUM_STUDENTS)
    /\ Len(students) = 3
    /\ students[1].score = Whole(0)
    /\ students[3].score = Whole(100)
    /\ \E i \in 1..(Len(progress) - 1) :
          progress[i].k = "gen_fail" /\ progress[i + 1].k = "gen_ok"

\* C2: each step observes exactly the collection the step before it left:
\* the step after a sort observes the arrangement the sort printed, and the
\* step after that observes what its predecessor left.
C2_StepsSeePredecessor ==
    \A k \in 1..(Len(trace) - 1) :
        /\ trace[k + 1].before = trace[k].after
        /\ Ran(k, "action") => Rows(trace[k].emitted) = RowsOf(trace[k + 1].before)

C2_Witness ==
    /\ Len(trace) >= 3
    /\ Ran(1, "action")
    /\ trace[1].before # trace[1].after
    /\ trace[2].invoked /\ trace[3].invoked

\* C3: a failed attempt leaves the collection and the target id as they
\* were and stays in the retry loop for the same id; the retry loop is left
\* only by a success that appends the entity, and the pipeline phase is
\* entered only from the loop test, never from a failure.
C3_FailureRecovered ==
    /\ [][(pc = "retry" /\ result'.st = "error") =>
            /\ students' = students
            /\ current_id_index' = current_id_index
            /\ target_id' = target_id
            /\ target_id' = Len(students') + 1
            /\ pc' = "retry"]_vars
    /\ [][(pc = "retry" /\ pc' # "retry") =>
            /\ result'.st = "value"
            /\ students' = Append(students, result'.value)]_vars
    /\ [][(pc # "steps" /\ pc' = "steps") =>
            /\ pc = "while"
            /\ result.st # "error"
            /\ Len(students) = NUM_STUDENTS]_vars

C3_Witness ==
    /\ pc = "retry"
    /\ result.st = "error"
    /\ result.error.kind = "Raw score out of range"
    /\ Len(students) = 1
    /\ target_id = 2

\* C4: under FairSpec the build reaches its completed state with
\* NUM_STUDENTS entities; and there is no retry limit: in the retry loop a
\* further failing attempt is always possible.
C4_BuildTerminates ==
    /\ <>(pc = "steps" /\ Len(students) = NUM_STUDENTS)
    /\ [](pc = "retry" => ENABLED <<AttemptFails>>_vars)

C4_Witness ==
    /\ pc = "while"
    /\ Len(students) = NUM_STUDENTS
    /\ NUM_STUDENTS = 2
    /\ Cardinality({i \in 1..Len(progress) : progress[i].k = "gen_fail"}) = 2
    /\ progress[Len(progress)].k = "gen_ok"

\* the output of a table with no rows and the note
EmptyTableWithNote(lines) ==
    /\ HasLine(lines, "list_title")
    /\ Rows(lines) = <<>>
    /\ HasLine(lines, "none")

\* C5 as stated: run through the pipeline on an empty collection, a filter
\* or mutation step renders an empty table with the note and the analysis
\* step reports N/A and zero analyzed.
C5_AsStated ==
    \A k \in 1..Len(trace) :
        trace[k].before = <<>> =>
            /\ trace[k].step.shape \in {"filter_print", "action"} =>
                    EmptyTableWithNote(trace[k].emitted)
            /\ trace[k].step.shape = "custom_logic" =>
                    /\ HasLine(trace[k].emitted, "average")
                    /\ LineOf(trace[k].emitted, "average").s = "Calculated Average Score: N/A"
                    /\ LineOf(trace[k].emitted, "analyzed").x = 0

\* the step of the k-th execution carries the exempted title
IsStatic(k) == trace[k].step.main_title = "(Hypothetical Static Step)"

\* C5 (amended): run through the pipeline on an empty collection, a step of
\* any of the three shapes, unless it carries the exempted title, prints
\* only its header and the "no data available" notice: no table, no note,
\* no statistics; its operation is not invoked and the collection stays
\* empty.
C5_EmptySkipped ==
    \A k \in 1..Len(trace) :
        (trace[k].before = <<>> /\ ~IsStatic(k)) =>
            /\ ~trace[k].invoked
            /\ trace[k].after = <<>>
            /\ Len(trace[k].emitted) = 3
            /\ trace[k].emitted[1] = Line("main_title", trace[k].step.main_title, 0, 0)
            /\ trace[k].emitted[2].k = "no_data"
            /\ trace[k].emitted[3].k = "blank"
            /\ ~HasLine(trace[k].emitted, "list_title")
            /\ ~HasLine(trace[k].emitted, "none")
            /\ ~HasLine(trace[k].emitted, "average")

C5_Witness ==
    /\ NUM_STUDENTS = 0
    /\ pc = "done"
    /\ \A sh \in {"filter_print", "custom_logic", "action"} :
          \E k \in 1..Len(trace) :
              trace[k].step.shape = sh /\ trace[k].before = <<>> /\ ~IsStatic(k)

\* the two sequences hold the same entities the same number of times
IsPermutation(a, b) ==
    /\ Len(a) = Len(b)
    /\ \A i \in 1..Len(a) :
          Cardinality({j \in 1..Len(a) : a[j] = a[i]}) =
          Cardinality({j \in 1..Len(b) : b[j] = a[i]})

NonIncreasing(d) ==
    \A i \in 1..(Len(d) - 1) :
        \/ d[i].score.w > d[i + 1].score.w
        \/ d[i].score.w = d[i + 1].score.w /\ d[i].score.u >= d[i + 1].score.u

\* C6: after the sort step has run, the collection is a permutation of what
\* the step found, in non-increasing score order; the table lists the whole
\* collection in that order; every later step and the final state observe
\* that order; [{1,50},{2,90},{3,70}] becomes [{2,90},{3,70},{1,50}].
C6_SortStep ==
    \A k \in 1..Len(trace) :
        Ran(k, "action") =>
            /\ IsPermutation(trace[k].before, trace[k].after)
            /\ NonIncreasing(trace[k].after)
            /\ Rows(trace[k].emitted) = RowsOf(trace[k].after)
            /\ \A j \in (k + 1)..Len(trace) :
                  trace[j].before = trace[k].after /\ trace[j].after = trace[k].after
            /\ students = trace[k].after
            /\ trace[k].before = <<Student(1, Whole(50)), Student(2, Whole(90)), Student(3, Whole(70))>> =>
                  trace[k].after = <<Student(2, Whole(90)), Student(3, Whole(70)), Student(1, Whole(50))>>

C6_Witness ==
    /\ pc = "done"
    /\ Ran(1, "action")
    /\ trace[1].before = <<Student(1, Whole(50)), Student(2, Whole(90)), Student(3, Whole(70))>>
    /\ students = <<Student(2, Whole(90)), Student(3, Whole(70)), Student(1, Whole(50))>>
    /\ Len(trace) = 4

\* the executor is about to run a filter step
AtFilterStep ==
    /\ pc = "steps"
    /\ stepIdx <= Len(processing_steps)
    /\ processing_steps[stepIdx].shape = "filter_print"

\* C7: running a filter step never changes the collection, neither its
\* contents nor its order.
C7_FilterReadOnly == [][AtFilterStep => students' = students]_vars

C7_Witness ==
    /\ Len(trace) >= 1
    /\ Ran(Len(trace), "filter_print")
    /\ Len(trace[Len(trace)].before) = 3
    /\ Len(Rows(trace[Len(trace)].emitted)) = 1
    /\ students = trace[Len(trace)].before

\* the exact sum of the scores, whole parts and low parts apart
RECURSIVE SumW(_)
SumW(d) == IF d = <<>> THEN 0 ELSE d[Len(d)].score.w + SumW(SubSeq(d, 1, Len(d) - 1))
RECURSIVE SumU(_)
SumU(d) == IF d = <<>> THEN 0 ELSE d[Len(d)].score.u + SumU(SubSeq(d, 1, Len(d) - 1))

\* score >= (exact sum of the scores of d) / Len(d)
AtLeastMean(s, d) ==
    \/ s.score.w * Len(d) > SumW(d)
    \/ s.score.w * Len(d) = SumW(d) /\ s.score.u * Len(d) >= SumU(d)

\* C8 as stated: on a non-empty collection the analysis step reports the
\* collection size as the number analysed, the average sum / size (to two
\* decimals), and lists exactly the entities with score >= that average, in
\* collection order; for [{1,60},{2,80}] the average is 70.00 and the list
\* is {2,80}.
C8_Analysis ==
    \A k \in 1..Len(trace) :
        (Ran(k, "custom_logic") /\ trace[k].before # <<>>) =>
            LET d == trace[k].before
                n == Len(d)
                avg100 == LineOf(trace[k].emitted, "average").x
            IN  /\ LineOf(trace[k].emitted, "analyzed").x = n
                /\ 2 * (avg100 * n - 100 * SumW(d)) <= n
                /\ 2 * (100 * SumW(d) - avg100 * n) <= n
                /\ Rows(trace[k].emitted) =
                       RowsOf(SelectSeq(d, LAMBDA s : AtLeastMean(s, d)))
                /\ LineOf(trace[k].emitted, "total").x = Len(Rows(trace[k].emitted))
                /\ d = <<Student(1, Whole(60)), Student(2, Whole(80))>> =>
                       /\ avg100 = 7000
                       /\ Rows(trace[k].emitted) = <<Line("row", "", 2, 8000)>>

\* C9: a filter step run twice in a row (the second run meets the collection
\* as the first run left it) emits the same rows in the same order and the
\* same count both times.
C9_FilterTwice ==
    \A k \in 1..(Len(trace) - 1) :
        (trace[k].step.shape = "filter_print" /\ trace[k + 1].step = trace[k].step) =>
            /\ Rows(trace[k + 1].emitted) = Rows(trace[k].emitted)
            /\ HasLine(trace[k].emitted, "total") = HasLine(trace[k + 1].emitted, "total")
            /\ HasLine(trace[k].emitted, "total") =>
                  LineOf(trace[k + 1].emitted, "total") = LineOf(trace[k].emitted, "total")
            /\ trace[k + 1].emitted = trace[k].emitted

C9_Witness ==
    \E k \in 1..(Len(trace) - 1) :
        /\ Ran(k, "filter_print") /\ Ran(k + 1, "filter_print")
        /\ trace[k + 1].step = trace[k].step
        /\ Len(Rows(trace[k].emitted)) = 2
        /\ Len(trace[k].before) = 3

\* C10: generate_single_student returns the simulated error whenever the
\* fault fired, whatever the score; the out-of-range error exactly when
\* the fault did not fire and the score is below 0 or above 100; otherwise
\* the entity with the requested id and the drawn score; 0 and 100 pass.
C10_Generate ==
    result.st # "none" =>
        LET outside == \/ generated_score.w < 0
                       \/ generated_score.w > 100
                       \/ generated_score.w = 100 /\ generated_score.u > 0
        IN  /\ injected_error =>
                  /\ result.st = "error"
                  /\ result.error.kind = "Simulated random error"
            /\ (result.st = "error" /\ result.error.kind = "Raw score out of range")
                  <=> (~injected_error /\ outside)
            /\ (~injected_error /\ outside) => result.error.raw = generated_score.w * 100
            /\ (~injected_error /\ ~outside) =>
                  /\ result.st = "value"
                  /\ result.value.id = target_id
                  /\ result.value.score = generated_score

C10_Witness ==
    /\ pc = "retry"
    /\ injected_error
    /\ generated_score = Whole(105)
    /\ result.error.kind = "Simulated random error"
    /\ Len(students) = 2
    /\ students[1] = Student(1, Whole(0))
    /\ students[2] = Student(2, Whole(100))

\* the number of lines of a kind among some printed lines
CountLines(lines, kind) == Cardinality({i \in 1..Len(lines) : lines[i].k = kind})

\* C11: a step executed on an empty collection, unless it carries the
\* exempted title, emits its header and the "no data available" notice, its
\* operation is not invoked and the collection is unchanged; a step executed
\* on a non-empty collection, or carrying the exempted title, emits its
\* header, no notice, and has its operation invoked exactly once (one
\* table is printed).
C11_Guard ==
    \A k \in 1..Len(trace) :
        LET e == trace[k].emitted
        IN  /\ Len(e) >= 1
            /\ e[1] = Line("main_title", trace[k].step.main_title, 0, 0)
            /\ CountLines(e, "main_title") = 1
            /\ IF trace[k].before = <<>> /\ ~IsStatic(k)
               THEN /\ ~trace[k].invoked
                    /\ CountLines(e, "no_data") = 1
                    /\ e[2].k = "no_data"
                    /\ CountLines(e, "list_title") = 0
                    /\ trace[k].after = trace[k].before
               ELSE /\ trace[k].invoked
                    /\ CountLines(e, "no_data") = 0
                    /\ CountLines(e, "list_title") = 1
                    /\ CountLines(e, "table_end") = 1
                    /\ trace[k].step.shape = "custom_logic" => CountLines(e, "stats") = 1
                    /\ trace[k].step.shape = "action" => CountLines(e, "sorting") = 1

C11_Witness ==
    /\ NUM_STUDENTS = 0
    /\ Len(trace) = 2
    /\ IsStatic(1) /\ trace[1].invoked /\ trace[1].before = <<>>
    /\ HasLine(trace[1].emitted, "average")
    /\ ~trace[2].invoked /\ HasLine(trace[2].emitted, "no_data")

\* what the first k executions printed, one after the other
RECURSIVE EmittedUpTo(_)
EmittedUpTo(k) == IF k = 0 THEN <<>> ELSE EmittedUpTo(k - 1) \o trace[k].emitted

\* the lines printed after the "Processing Student Data" line
PipelineOut ==
    LET start == CHOOSE i \in 1..Len(out) : out[i].k = "processing"
    IN  SubSeq(out, start + 1, Len(out))

\* the steps have been run in list order, each once so far, and the output
\* of the pipeline is their outputs one after the other, each a header
\* followed by what the step printed, without interleaving
StepsInOrder ==
    pc \in {"steps", "done"} =>
        /\ Len(trace) = stepIdx - 1
        /\ Len(trace) <= Len(processing_steps)
        /\ \A k \in 1..Len(trace) :
              /\ trace[k].step = processing_steps[k]
              /\ trace[k].emitted[1] = Line("main_title", processing_steps[k].main_title, 0, 0)
              /\ CountLines(trace[k].emitted, "main_title") = 1
        /\ PipelineOut = EmittedUpTo(Len(trace)) \o
                          (IF pc = "done" THEN <<Line("complete", "Processing Complete", 0, 0)>>
                           ELSE <<>>)
        /\ pc = "done" => Len(trace) = Len(processing_steps)

\* C12: the executor runs the steps strictly in list order, each exactly
\* once; the header of a step comes before what its operation prints, both
\* after everything of the step before and before anything of the step
\* after; and once generation has completed the run eventually prints
\* "Processing Complete", having run every step.
C12_Pipeline ==
    /\ []StepsInOrder
    /\ (pc = "steps") ~> (pc = "done" /\ Len(trace) = Len(processing_steps))

C12_Witness ==
    /\ pc = "done"
    /\ processing_steps = MainSteps
    /\ Len(trace) = 4
    /\ \A k \in 1..4 : trace[k].invoked
    /\ out[Len(out)].k = "complete"

\* the ids of a sequence of entities are pairwise different and are exactly
\* 1 .. its length
DenseIds(d) ==
    /\ \A i \in 1..Len(d) : \A j \in 1..Len(d) : i # j => d[i].id # d[j].id
    /\ {d[i].id : i \in 1..Len(d)} = 1..Len(d)

\* C13: in every reachable state, during the build, between steps and after
\* the last step, no two entities of the collection share an id and the ids
\* present are exactly 1 .. size; no step adds, drops or duplicates an
\* entity, and the collection stays a permutation of the built dataset.
C13_Ids ==
    /\ DenseIds(students)
    /\ \A k \in 1..Len(trace) :
          /\ IsPermutation(trace[k].before, trace[k].after)
          /\ IsPermutation(trace[1].before, trace[k].after)
          /\ DenseIds(trace[k].after)
    /\ trace # <<>> =>
          /\ IsPermutation(trace[1].before, students)
          /\ Len(students) = NUM_STUDENTS

C13_Witness ==
    /\ pc = "done"
    /\ Len(students) = 3
    /\ students # trace[1].before
    /\ students[1].id = 3
    /\ students[2].score = students[3].score

\* the executor is about to run a custom-analysis step
AtCustomStep ==
    /\ pc = "steps"
    /\ stepIdx <= Len(processing_steps)
    /\ processing_steps[stepIdx].shape = "custom_logic"

\* C14: running the custom-analysis step leaves the collection exactly as
\* it found it, contents and order, whether the collection is empty or not.
C14_AnalysisReadOnly ==
    /\ [][AtCustomStep => students' = students]_vars
    /\ [](\A k \in 1..Len(trace) :
             trace[k].step.shape = "custom_logic" => trace[k].after = trace[k].before)

C14_Witness ==
    /\ Len(trace) >= 1
    /\ Ran(Len(trace), "custom_logic")
    /\ Len(trace[Len(trace)].before) = 3
    /\ ~NonIncreasing(trace[Len(trace)].before)
    /\ Len(Rows(trace[Len(trace)].emitted)) = 2
    /\ students = trace[Len(trace)].before

\* the position of the entity e in the sequence d
Pos(d, e) == CHOOSE i \in 1..Len(d) : d[i] = e

\* C15 as stated: the sort step is stable: two entities with equal scores
\* come out in the relative order they had before the sort.
C15_AsStated ==
    \A k \in 1..Len(trace) :
        Ran(k, "action") =>
            LET b == trace[k].before
                a == trace[k].after
            IN  \A i \in 1..Len(b) : \A j \in 1..Len(b) :
                    (i < j /\ b[i].score = b[j].score) => Pos(a, b[i]) < Pos(a, b[j])

\* C15 (amended): the sort step puts an entity with a higher score before
\* every entity with a lower score; entities with equal scores end up next
\* to one another, in a relative order that is not determined (it may or may
\* not be the order they had before).
C15_OrderOfTies ==
    \A k \in 1..Len(trace) :
        Ran(k, "action") =>
            LET b == trace[k].before
                a == trace[k].after
            IN  /\ Len(a) = Len(b)
                /\ \A i \in 1..Len(b) : \A j \in 1..Len(b) :
                      DLess(b[j].score, b[i].score) =>
                          /\ \E x \in 1..Len(a) : a[x] = b[i]
                          /\ \E y \in 1..Len(a) : a[y] = b[j]
                          /\ Pos(a, b[i]) < Pos(a, b[j])
                /\ \A x \in 1..Len(a) : \A y \in 1..Len(a) :
                      (x < y /\ a[x].score = a[y].score) =>
                          \A z \in x..y : a[z].score = a[x].score

C15_Witness ==
    \E k \in 1..Len(trace) :
        /\ Ran(k, "action")
        /\ trace[k].before = <<Student(1, Whole(50)), Student(2, Whole(90)), Student(3, Whole(50))>>
        /\ trace[k].after = <<Student(2, Whole(90)), Student(3, Whole(50)), Student(1, Whole(50))>>

\* the sequence the k-th execution hands to the renderer, and the flag
GivenTo(k) ==
    LET b == trace[k].before
    IN  CASE trace[k].step.shape = "filter_print" ->
                SelectSeq(b, LAMBDA s : Filter(trace[k].step.filter, s))
          [] trace[k].step.shape = "action" -> trace[k].after
          [] trace[k].step.shape = "custom_logic" ->
                IF b = <<>> THEN <<>>
                ELSE SelectSeq(b, LAMBDA s :
                         GeqQuotient(s.score, DDiv(Accumulate(b, 1, Whole(0)), Len(b))))
ShowCount(k) ==
    CASE trace[k].step.shape = "filter_print" -> trace[k].step.print_summary
      [] trace[k].step.shape = "action" -> FALSE
      [] trace[k].step.shape = "custom_logic" -> TRUE

\* C16: every table has one row per entity of the sequence the renderer is
\* given, in the order of the sequence; with show_count the count line
\* reports the number of rows and the "no students met the criteria" note
\* is there exactly when that number is zero; without show_count there is
\* neither a count line nor a note.
C16_Table ==
    \A k \in 1..Len(trace) :
        trace[k].invoked =>
            LET e == trace[k].emitted
            IN  /\ Rows(e) = RowsOf(GivenTo(k))
                /\ \A i \in 1..Len(e) : \A j \in 1..Len(e) :
                      (e[i].k = "list_title" /\ e[j].k = "row") => i < j
                /\ IF ShowCount(k)
                   THEN /\ CountLines(e, "total") = 1
                        /\ LineOf(e, "total").x = Len(Rows(e))
                        /\ HasLine(e, "none") <=> Len(Rows(e)) = 0
                   ELSE /\ ~HasLine(e, "total")
                        /\ ~HasLine(e, "none")

C16_Witness ==
    /\ pc = "done"
    /\ processing_steps = MainSteps
    /\ Len(trace) = 4
    /\ HasLine(trace[1].emitted, "none")
    /\ Len(Rows(trace[2].emitted)) = 2
    /\ LineOf(trace[2].emitted, "total").x = 2
    /\ Len(Rows(trace[4].emitted)) = 3
    /\ ~HasLine(trace[4].emitted, "total")

\* C17 as stated: whenever the custom-analysis step runs on a non-empty
\* collection its ">= average" table has at least one row, and the "no
\* students met the criteria" note is not printed.
C17_NonEmptyTable ==
    \A k \in 1..Len(trace) :
        (Ran(k, "custom_logic") /\ trace[k].before # <<>>) =>
            /\ Len(Rows(trace[k].emitted)) >= 1
            /\ ~HasLine(trace[k].emitted, "none")

\* the failures reported among the first n lines of progress
FailuresBefore(n) == CountLines(SubSeq(progress, 1, n), "gen_fail")

\* C18: the attempt counter restarts for each new target id, so that the
\* first attempt for the id is reported as attempt 1; failures for the id
\* are numbered 1, 2, ...; and the attempt number reported with the success
\* is one plus the number of failures reported for that id.
C18_Attempts ==
    /\ [][(pc = "while" /\ pc' = "retry") =>
            /\ attempt_count' = 0
            /\ target_id' = Len(students) + 1
            /\ progress' = <<Line("gen_id", "Generating data for ID", target_id', 0)>>]_vars
    /\ [](progress # <<>> =>
            /\ progress[1].k = "gen_id"
            /\ progress[1].x = target_id
            /\ \A i \in 2..Len(progress) :
                  /\ progress[i].k \in {"gen_fail", "gen_ok"}
                  /\ progress[i].k = "gen_fail" =>
                        progress[i].x = 1 + FailuresBefore(i - 1)
                  /\ progress[i].k = "gen_ok" =>
                        /\ i = Len(progress)
                        /\ progress[i].y = 1 + FailuresBefore(i - 1)
                        /\ progress[i].y = attempt_count
            /\ pc = "retry" => attempt_count = FailuresBefore(Len(progress)))

C18_Witness ==
    /\ pc = "while"
    /\ Len(students) = 2
    /\ target_id = 2
    /\ students[1].score # students[2].score
    /\ Len(progress) = 4
    /\ progress[2].k = "gen_fail" /\ progress[2].x = 1
    /\ progress[3].k = "gen_fail" /\ progress[3].x = 2
    /\ progress[4].k = "gen_ok" /\ progress[4].y = 3

====
